---- MODULE Spec2Model ----
(***************************************************************************)
(* Model of configure.py: the script parses --arch, spawns four child      *)
(* processes with subprocess.Popen (cp, mkdir, cp, cp) without waiting for *)
(* any of them, changes directory to ./kernel/ in between, and exits.      *)
(*                                                                         *)
(* Paths are sequences of components, the filesystem is a map from the     *)
(* paths of regular files to their content plus a set of directories.     *)
(* A child process is spawned with the working directory the script has   *)
(* at that moment and runs at any later time, also after the script has    *)
(* exited and after a later invocation of the script has begun.            *)
(***************************************************************************)
EXTENDS Integers, Sequences, FiniteSets, TLC

VARIABLES
    run,      \* number of invocations of the script so far
    pc,       \* position of the script of the current invocation
    cwd,      \* working directory of the script of the current invocation
    args,     \* args[r]: the parsed namespace of invocation r (args.arch)
    exit,     \* exit[r]: exit status of invocation r, once it has exited
    procs,    \* procs[r][op]: the child process op spawned by invocation r
    files,    \* regular files of the tree: path -> content
    dirs,     \* directories of the tree
    files0,   \* the regular files before the first invocation
    dirs0,    \* the directories before the first invocation
    once      \* once[r]: the destinations when invocation r began, if the
              \* tree was at rest then

vars == <<run, pc, cwd, args, exit, procs, files, dirs, files0, dirs0, once>>

----------------------------------------------------------------------------
(* Bounds and inputs *)

MaxRuns == 2

\* values of the --arch option that name an architecture of the tree
Archs == {"a", "b"}

\* the command lines: --arch omitted (<<>>), --arch "" and --arch <name>
Argvs == {<<>>, <<"">>} \cup {<<s>> : s \in Archs}

Runs == 1..MaxRuns

Ops == {"cpMakefile", "mkdir", "cpConfig", "cpLinker"}

Kinds == {"makefile", "config", "linker"}

----------------------------------------------------------------------------
(* Paths *)

Root == <<>>

\* os.chdir("./kernel/")
KernelDir == <<"kernel">>

Resolve(dir, rel) == dir \o rel

Parent(p) == SubSeq(p, 1, Len(p) - 1)

Ancestors(p) == {SubSeq(p, 1, n) : n \in 0..Len(p)}

\* parser.parse_args(): args.arch is None when --arch is not given
ParseArgs(argv) == IF argv = <<>> THEN [given |-> FALSE, arch |-> ""]
                   ELSE [given |-> TRUE, arch |-> argv[1]]

\* f"{args.arch}": None is formatted as the text None
Fmt(ns) == IF ns.given THEN ns.arch ELSE "None"

\* the destination spelled GNUMakefile
MakefileCmdCased(ns) ==
    <<"cp", "-f", <<"makefiles", "Makefile_" \o Fmt(ns)>>, <<"GNUMakefile">> >>

MakefileCmd(ns) ==
    <<"cp", "-f", <<"makefiles", "Makefile_" \o Fmt(ns)>>, <<"GNUmakefile">> >>

MkdirCmd == <<"mkdir", "-p", <<".cargo">> >>

ConfigCmd(ns) ==
    <<"cp", "-f", <<"arch_specific_configs", "config." \o Fmt(ns) \o ".toml">>,
      <<".cargo", "config.toml">> >>

\* the linker copy pasted from the config copy with its source left as is
LinkerCmdPasted(ns) ==
    <<"cp", "-f", <<"arch_specific_configs", "config." \o Fmt(ns) \o ".toml">>,
      <<"linker.ld">> >>

LinkerCmd(ns) ==
    <<"cp", "-f", <<"arch_specific_configs", "linker." \o Fmt(ns) \o ".ld">>,
      <<"linker.ld">> >>

----------------------------------------------------------------------------
(* The tree the build expects, relative to the invocation root *)

GNUmakefile == <<"GNUmakefile">>
CargoDir    == <<"kernel", ".cargo">>
ConfigToml  == <<"kernel", ".cargo", "config.toml">>
LinkerLd    == <<"kernel", "linker.ld">>

Dest(k) == CASE k = "makefile" -> GNUmakefile
             [] k = "config"   -> ConfigToml
             [] k = "linker"   -> LinkerLd

Source(k, a) ==
    CASE k = "makefile" -> <<"makefiles", "Makefile_" \o a>>
      [] k = "config"   -> <<"kernel", "arch_specific_configs", "config." \o a \o ".toml">>
      [] k = "linker"   -> <<"kernel", "arch_specific_configs", "linker." \o a \o ".ld">>

Dests == {Dest(k) : k \in Kinds}

\* a file that does not exist has no content
Absent == <<"absent">>
Old    == <<"old">>

Content(fs, p) == IF p \in DOMAIN fs THEN fs[p] ELSE Absent

\* a source file holds bytes of its own: its path stands for them
FileMap(S) == [p \in S |-> IF p \in Dests THEN Old ELSE p]

----------------------------------------------------------------------------
(* Child processes *)

NotSpawned == [st |-> "unspawned", cwd |-> Root, cmd |-> <<>>]

\* a child that is started in kernel/ wherever the script is
PopenInKernel(dir, cmd) == [st |-> "pending", cwd |-> KernelDir, cmd |-> cmd]

\* subprocess.Popen(cmd): the child inherits the caller's working directory
\* and is not waited for
Popen(dir, cmd) == [st |-> "pending", cwd |-> dir, cmd |-> cmd]

Finished(p) == p.st \in {"ok", "failed"}

\* cp -f SRC DST writes DST, or DST/<name of SRC> when DST is a directory
CpTarget(ds, src, dst) == IF dst \in ds THEN Append(dst, src[Len(src)]) ELSE dst

\* cp -f SRC DST: fails without touching the target when SRC is not a
\* regular file or the directory of the target does not exist, else the
\* target gets the bytes of SRC
CpSucceeds(fs, ds, src, dst) ==
    /\ src \in DOMAIN fs
    /\ Parent(CpTarget(ds, src, dst)) \in ds
    /\ CpTarget(ds, src, dst) \notin ds

\* a copy that removes its target when it fails
CpFilesUnlinking(fs, ds, src, dst) ==
    IF CpSucceeds(fs, ds, src, dst)
    THEN (CpTarget(ds, src, dst) :> fs[src]) @@ fs
    ELSE [p \in DOMAIN fs \ {CpTarget(ds, src, dst)} |-> fs[p]]

CpFiles(fs, ds, src, dst) ==
    IF CpSucceeds(fs, ds, src, dst)
    THEN (CpTarget(ds, src, dst) :> fs[src]) @@ fs
    ELSE fs

\* mkdir -p DIR: creates DIR and its missing ancestors, fails when one of
\* them exists as a regular file
MkdirSucceeds(fs, ds, d) == \A q \in Ancestors(d) : q \notin DOMAIN fs

MkdirDirs(fs, ds, d) ==
    IF MkdirSucceeds(fs, ds, d) THEN ds \cup Ancestors(d) ELSE ds

AtRest == \A r \in Runs : \A op \in Ops : procs[r][op].st # "pending"

Staged(fs) == [k \in Kinds |-> Content(fs, Dest(k))]

\* the destinations as an observer finds them between two invocations, when
\* no child of an earlier invocation is still to run
Snapshot == IF AtRest THEN [rest |-> TRUE, dst |-> Staged(files)]
            ELSE [rest |-> FALSE, dst |-> [k \in Kinds |-> Absent]]

----------------------------------------------------------------------------
(* Initial trees *)

\* architecture a has all three sources, architecture b those of has;
\* the names None and the empty name have no sources
SourceFiles(has) ==
    {Source(k, "a") : k \in Kinds} \cup {Source(k, "b") : k \in has}

InKernel(p) == Len(p) > 0 /\ p[1] = "kernel"

Init ==
    /\ run = 0
    /\ pc = "idle"
    /\ cwd = Root
    /\ args = <<>>
    /\ exit = <<>>
    /\ once = <<>>
    /\ procs = [r \in Runs |-> [op \in Ops |-> NotSpawned]]
    /\ \E has \in SUBSET Kinds, populated \in BOOLEAN,
          kernel \in BOOLEAN, cargo \in BOOLEAN :
         LET all  == SourceFiles(has) \cup (IF populated THEN Dests ELSE {})
             kept == {p \in all : InKernel(p) => kernel}
         IN  /\ populated /\ kernel => cargo
             /\ cargo => kernel
             /\ files = FileMap(kept)
             /\ dirs = {Root, <<"makefiles">>}
                         \cup (IF kernel
                               THEN {KernelDir, <<"kernel", "arch_specific_configs">>}
                               ELSE {})
                         \cup (IF cargo THEN {CargoDir} ELSE {})
    /\ files0 = files
    /\ dirs0 = dirs

----------------------------------------------------------------------------
(* The script, one action per statement *)

\* python configure.py [--arch ARCH]; args = parser.parse_args()
Invoke(argv) ==
    /\ pc \in {"idle", "exited"}
    /\ run < MaxRuns
    /\ run' = run + 1
    /\ args' = Append(args, ParseArgs(argv))
    /\ once' = Append(once, Snapshot)
    /\ cwd' = Root
    /\ pc' = "popenMakefile"
    /\ UNCHANGED <<exit, procs, files, dirs, files0, dirs0>>

Spawn(op, cmd) == procs' = [procs EXCEPT ![run][op] = Popen(cwd, cmd)]

\* subprocess.Popen(["cp", "-f", f"makefiles/Makefile_{args.arch}", "GNUmakefile"])
PopenMakefile ==
    /\ pc = "popenMakefile"
    /\ Spawn("cpMakefile", MakefileCmd(args[run]))
    /\ pc' = "chdir"
    /\ UNCHANGED <<run, cwd, args, exit, files, dirs, files0, dirs0, once>>

\* a chdir whose failure is swallowed: the script goes on where it is
ChdirLenient ==
    /\ pc = "chdir"
    /\ cwd' = IF Resolve(cwd, KernelDir) \in dirs THEN Resolve(cwd, KernelDir) ELSE cwd
    /\ pc' = "popenMkdir"
    /\ UNCHANGED <<run, args, exit, procs, files, dirs, files0, dirs0, once>>

\* os.chdir("./kernel/"): raises when the directory does not exist, and the
\* uncaught exception ends the script with status 1
Chdir ==
    /\ pc = "chdir"
    /\ \/ /\ Resolve(cwd, KernelDir) \in dirs
          /\ cwd' = Resolve(cwd, KernelDir)
          /\ pc' = "popenMkdir"
          /\ exit' = exit
       \/ /\ Resolve(cwd, KernelDir) \notin dirs
          /\ cwd' = cwd
          /\ pc' = "exited"
          /\ exit' = Append(exit, 1)
    /\ UNCHANGED <<run, args, procs, files, dirs, files0, dirs0, once>>

\* subprocess.Popen(["mkdir", "-p", ".cargo"])
PopenMkdir ==
    /\ pc = "popenMkdir"
    /\ Spawn("mkdir", MkdirCmd)
    /\ pc' = "popenConfig"
    /\ UNCHANGED <<run, cwd, args, exit, files, dirs, files0, dirs0, once>>

\* subprocess.Popen(["cp", "-f", f"arch_specific_configs/config.{args.arch}.toml", ".cargo/config.toml"])
PopenConfig ==
    /\ pc = "popenConfig"
    /\ Spawn("cpConfig", ConfigCmd(args[run]))
    /\ pc' = "popenLinker"
    /\ UNCHANGED <<run, cwd, args, exit, files, dirs, files0, dirs0, once>>

\* subprocess.Popen(["cp", "-f", f"arch_specific_configs/linker.{args.arch}.ld", "linker.ld"])
PopenLinker ==
    /\ pc = "popenLinker"
    /\ Spawn("cpLinker", LinkerCmd(args[run]))
    /\ pc' = "end"
    /\ UNCHANGED <<run, cwd, args, exit, files, dirs, files0, dirs0, once>>

\* the end of the script: the interpreter exits with status 0
Exit ==
    /\ pc = "end"
    /\ pc' = "exited"
    /\ exit' = Append(exit, 0)
    /\ UNCHANGED <<run, cwd, args, procs, files, dirs, files0, dirs0, once>>

----------------------------------------------------------------------------
(* The children, each run by the operating system at a time of its own *)

\* a cp that is started again whenever it fails
ChildCpRetrying(r, op) ==
    LET p   == procs[r][op]
        src == Resolve(p.cwd, p.cmd[3])
        dst == Resolve(p.cwd, p.cmd[4])
    IN  /\ p.st = "pending"
        /\ p.cmd[1] = "cp"
        /\ files' = CpFiles(files, dirs, src, dst)
        /\ procs' = [procs EXCEPT ![r][op].st =
                        IF CpSucceeds(files, dirs, src, dst) THEN "ok" ELSE "pending"]
        /\ UNCHANGED <<run, pc, cwd, args, exit, dirs, files0, dirs0, once>>

\* a spawned cp runs
ChildCp(r, op) ==
    LET p   == procs[r][op]
        src == Resolve(p.cwd, p.cmd[3])
        dst == Resolve(p.cwd, p.cmd[4])
    IN  /\ p.st = "pending"
        /\ p.cmd[1] = "cp"
        /\ files' = CpFiles(files, dirs, src, dst)
        /\ procs' = [procs EXCEPT ![r][op].st =
                        IF CpSucceeds(files, dirs, src, dst) THEN "ok" ELSE "failed"]
        /\ UNCHANGED <<run, pc, cwd, args, exit, dirs, files0, dirs0, once>>

\* a spawned mkdir runs
ChildMkdir(r, op) ==
    LET p == procs[r][op]
        d == Resolve(p.cwd, p.cmd[3])
    IN  /\ p.st = "pending"
        /\ p.cmd[1] = "mkdir"
        /\ dirs' = MkdirDirs(files, dirs, d)
        /\ procs' = [procs EXCEPT ![r][op].st =
                        IF MkdirSucceeds(files, dirs, d) THEN "ok" ELSE "failed"]
        /\ UNCHANGED <<run, pc, cwd, args, exit, files, files0, dirs0, once>>

Next ==
    \/ \E argv \in Argvs : Invoke(argv)
    \/ PopenMakefile
    \/ Chdir
    \/ PopenMkdir
    \/ PopenConfig
    \/ PopenLinker
    \/ Exit
    \/ \E r \in Runs, op \in Ops : ChildCp(r, op)
    \/ \E r \in Runs, op \in Ops : ChildMkdir(r, op)

Spec == Init /\ [][Next]_vars

\* one invocation of the script on its own
InvokeFirst(argv) == run = 0 /\ Invoke(argv)

NextSingle ==
    \/ \E argv \in Argvs : InvokeFirst(argv)
    \/ PopenMakefile
    \/ Chdir
    \/ PopenMkdir
    \/ PopenConfig
    \/ PopenLinker
    \/ Exit
    \/ \E op \in Ops : ChildCp(1, op)
    \/ \E op \in Ops : ChildMkdir(1, op)

SpecSingle == Init /\ [][NextSingle]_vars

\* one invocation under fair scheduling: the script is invoked, the
\* interpreter goes on to its next statement, and the operating system
\* runs every process that has been spawned
FairSingle ==
    /\ SpecSingle
    /\ WF_vars(\E argv \in Argvs : InvokeFirst(argv))
    /\ WF_vars(PopenMakefile)
    /\ WF_vars(Chdir)
    /\ WF_vars(PopenMkdir)
    /\ WF_vars(PopenConfig)
    /\ WF_vars(PopenLinker)
    /\ WF_vars(Exit)
    /\ \A op \in Ops : WF_vars(ChildCp(1, op)) /\ WF_vars(ChildMkdir(1, op))

TypeOK ==
    /\ run \in 0..MaxRuns
    /\ pc \in {"idle", "popenMakefile", "chdir", "popenMkdir", "popenConfig",
               "popenLinker", "end", "exited"}
    /\ Len(args) = run
    /\ Len(exit) \in {run, run - 1}
    /\ \A r \in Runs, op \in Ops :
         procs[r][op].st \in {"unspawned", "pending", "ok", "failed"}

----------------------------------------------------------------------------
(* Vocabulary of the properties *)

\* the name invocation r asks the sources of
ArchOf(r) == Fmt(args[r])

Exited(r) == r <= Len(exit)

\* invocation r and every child it started have finished
RunDone(r) == Exited(r) /\ \A op \in Ops : procs[r][op].st # "pending"

HasSource(k, a) == Source(k, a) \in DOMAIN files

HasAllSources(a) == \A k \in Kinds : HasSource(k, a)

StagedFrom(k, a) == Content(files, Dest(k)) = Content(files, Source(k, a))

InProgress == {rop \in Runs \X Ops : procs[rop[1]][rop[2]].st = "pending"}

\* the script takes the step that spawns a child after the first
SpawnsLater == /\ pc \in {"popenMkdir", "popenConfig", "popenLinker"}
               /\ pc' # pc

\* the config copy of invocation r executes in this step
ConfigCopyRuns(r) == /\ procs[r]["cpConfig"].st = "pending"
                     /\ procs'[r]["cpConfig"].st # "pending"

----------------------------------------------------------------------------
(* Properties *)

\* C1: when the three sources of the arch exist, then for every initial
\* destination tree, once the run and all the operations it started have
\* finished, each of the three destinations equals its source.
C1_AllStaged ==
    (run = 1 /\ RunDone(1) /\ HasAllSources(ArchOf(1)))
        => \A k \in Kinds : StagedFrom(k, ArchOf(1))

\* C2: when kernel/.cargo/ does not exist before the run and the config
\* source exists, then after all spawned operations have finished
\* kernel/.cargo/ exists and kernel/.cargo/config.toml equals the source.
C2_DirAutoCreated ==
    (run = 1 /\ RunDone(1) /\ CargoDir \notin dirs0 /\ KernelDir \in dirs0
        /\ HasSource("config", ArchOf(1)))
        => CargoDir \in dirs /\ StagedFrom("config", ArchOf(1))

\* C3: the config copy executes only when the mkdir of the same run has
\* finished.
C3_MkdirBeforeCopy ==
    [][\A r \in Runs : ConfigCopyRuns(r) => Finished(procs[r]["mkdir"])]_vars

\* C4: at most one staging operation is in progress at any time.
C4_OneAtATime == Cardinality(InProgress) <= 1

\* C5: when a source of the arch is missing, no destination is overwritten
\* and the run ends with an error status.
C5_MissingLeavesUntouched ==
    (run = 1 /\ \E k \in Kinds : ~HasSource(k, ArchOf(1)))
        => /\ Staged(files) = Staged(files0)
           /\ Exited(1) => exit[1] # 0

\* C6: a run in which a copy or the directory creation fails exits with a
\* status other than 0.
C6_ExitReflectsFailure ==
    \A r \in Runs :
        (Exited(r) /\ \E op \in Ops : procs[r][op].st = "failed") => exit[r] # 0

\* C7: the script starts no further operation once an operation of the run
\* has failed.
C7_FailFast ==
    [][SpawnsLater => \A op \in Ops : procs[run][op].st # "failed"]_vars

\* C8: when the script has exited with status 0, no operation it spawned is
\* still to run.
C8_NothingPendingAtExit ==
    \A r \in Runs :
        (Exited(r) /\ exit[r] = 0) => \A op \in Ops : procs[r][op].st # "pending"

\* C9: after a run for one arch and then, once it has exited, a run for
\* another arch, both with all their sources, the three destinations equal
\* the sources of the second arch when everything has finished (stated for
\* the trees in which kernel/.cargo/ exists beforehand, so that the order of
\* mkdir and copy within a run plays no part).
C9_SwitchLeavesSecond ==
    (run = 2 /\ RunDone(1) /\ RunDone(2) /\ ArchOf(1) # ArchOf(2)
        /\ HasAllSources(ArchOf(1)) /\ HasAllSources(ArchOf(2))
        /\ CargoDir \in dirs0)
        => \A k \in Kinds : StagedFrom(k, ArchOf(2))

\* C10: a second run with the same arch, begun when the first run and its
\* operations have finished, ends with the destinations the first run left.
C10_Idempotent ==
    (run = 2 /\ RunDone(2) /\ once[2].rest /\ args[2] = args[1])
        => Staged(files) = once[2].dst

\* the cp child that stages the destination of kind k
CopyOf(k) == CASE k = "makefile" -> "cpMakefile"
               [] k = "config"   -> "cpConfig"
               [] k = "linker"   -> "cpLinker"

\* the child op of invocation r executes in this step
ChildRuns(r, op) == /\ procs[r][op].st = "pending"
                    /\ procs'[r][op].st # "pending"

\* --arch was not given, or was given the empty name
NoArch(r) == ~args[r].given \/ args[r].arch = ""

\* C11: when the arch argument is missing or empty, the run spawns no
\* operation, changes nothing in the tree and ends with an error status.
C11_NoArchNoEffect ==
    (run = 1 /\ NoArch(1))
        => /\ \A op \in Ops : procs[1][op].st = "unspawned"
           /\ files = files0 /\ dirs = dirs0
           /\ Exited(1) => exit[1] # 0

\* C12: once a run and its operations have finished, the three destinations
\* are determined by the arch and the source files alone: each holds the
\* bytes of the source of the arch, and is absent when the arch has no such
\* source (the one function that agrees with the runs started on a tree
\* without destinations), whatever the destinations held before and
\* whatever the schedule of the operations was.
C12_DeterminedByArch ==
    (run = 1 /\ RunDone(1) /\ KernelDir \in dirs0)
        => Staged(files) = [k \in Kinds |-> Content(files, Source(k, ArchOf(1)))]

\* C13: within a run the write of GNUmakefile precedes the write of
\* kernel/.cargo/config.toml, which precedes the write of kernel/linker.ld.
C13_FixedOrder ==
    [][\A r \in Runs :
         /\ ChildRuns(r, "cpConfig") => Finished(procs[r]["cpMakefile"])
         /\ ChildRuns(r, "cpLinker") => Finished(procs[r]["cpConfig"])]_vars

\* C14: a run writes only GNUmakefile, kernel/.cargo/config.toml and
\* kernel/linker.ld and creates only the directory kernel/.cargo/, whatever
\* the arch; no file under makefiles/ or kernel/arch_specific_configs/ is
\* modified, created or removed.
C14_Frame ==
    /\ \A p \in (DOMAIN files \cup DOMAIN files0) \ Dests :
         /\ p \in DOMAIN files
         /\ p \in DOMAIN files0
         /\ files[p] = files0[p]
    /\ dirs0 \subseteq dirs
    /\ dirs \ dirs0 \subseteq {CargoDir}

\* a finished run that has written all three destinations and created
\* kernel/.cargo/
C14_Witness ==
    /\ run = 1 /\ RunDone(1)
    /\ \A op \in Ops : procs[1][op].st = "ok"
    /\ CargoDir \in dirs \ dirs0
    /\ \A k \in Kinds : Content(files, Dest(k)) # Content(files0, Dest(k))

\* C15: when a run has finished, every destination whose copy succeeded
\* holds the bytes of the source of the run's arch and every destination
\* whose copy failed or was never started holds what it held before the
\* run: nothing is rolled back.
C15_NoRollback ==
    (run = 1 /\ RunDone(1))
        => \A k \in Kinds :
             IF procs[1][CopyOf(k)].st = "ok"
             THEN /\ HasSource(k, ArchOf(1))
                  /\ Content(files, Dest(k)) = files[Source(k, ArchOf(1))]
             ELSE Content(files, Dest(k)) = Content(files0, Dest(k))

\* a finished run that staged the Makefile of its arch and failed on the
\* linker script, which keeps its former content
C15_Witness ==
    /\ run = 1 /\ RunDone(1)
    /\ procs[1]["cpMakefile"].st = "ok"
    /\ procs[1]["cpLinker"].st = "failed"
    /\ Content(files, GNUmakefile) = Source("makefile", ArchOf(1))
    /\ Content(files0, GNUmakefile) = Old
    /\ Content(files, LinkerLd) = Old

\* C16: the three copies are independent: a destination changes only in
\* the step in which its own copy executes, and it then gets the bytes of
\* its source exactly when that source exists and the directory of the
\* destination exists at that moment, whatever the state of the other
\* copies and of the mkdir.
C16_Independent ==
    [][\A k \in Kinds :
         Content(files', Dest(k)) =
            IF /\ ChildRuns(1, CopyOf(k))
               /\ HasSource(k, ArchOf(1))
               /\ Parent(Dest(k)) \in dirs
            THEN files[Source(k, ArchOf(1))]
            ELSE Content(files, Dest(k))]_vars

\* a finished run in which the linker script was staged although the
\* Makefile copy and the config copy failed
C16_Witness ==
    /\ run = 1 /\ RunDone(1)
    /\ procs[1]["cpMakefile"].st = "failed"
    /\ procs[1]["cpConfig"].st = "failed"
    /\ procs[1]["cpLinker"].st = "ok"
    /\ Content(files, LinkerLd) = Source("linker", ArchOf(1))
    /\ Content(files0, LinkerLd) # Source("linker", ArchOf(1))

\* C17: the Makefile copy is spawned while the script is in the invocation
\* root and runs there, the mkdir and the config and linker copies run in
\* kernel/; no schedule writes kernel/GNUmakefile or linker.ld in the root.
C17_WorkingDirs ==
    /\ \A r \in Runs :
         /\ procs[r]["cpMakefile"].cwd = Root
         /\ \A op \in Ops \ {"cpMakefile"} :
              procs[r][op].st # "unspawned" => procs[r][op].cwd = KernelDir
    /\ (run >= 1 /\ cwd # Root) => procs[run]["cpMakefile"].st # "unspawned"
    /\ <<"kernel", "GNUmakefile">> \notin DOMAIN files
    /\ <<"linker.ld">> \notin DOMAIN files

\* a finished run whose Makefile copy and linker copy both succeeded
C17_Witness ==
    /\ run = 1 /\ RunDone(1)
    /\ procs[1]["cpMakefile"].st = "ok"
    /\ procs[1]["cpLinker"].st = "ok"
    /\ Content(files, GNUmakefile) = Source("makefile", ArchOf(1))
    /\ Content(files, LinkerLd) = Source("linker", ArchOf(1))

\* C18: when kernel/ does not exist, the Makefile copy is spawned and
\* stages GNUmakefile when its source exists, the script ends with an error
\* status, and the mkdir and the config and linker copies are never started.
C18_NoKernelDir ==
    (run = 1 /\ KernelDir \notin dirs0)
        => /\ \A op \in Ops \ {"cpMakefile"} : procs[1][op].st = "unspawned"
           /\ pc \in {"popenMakefile", "chdir", "exited"}
           /\ Exited(1) => exit[1] = 1 /\ procs[1]["cpMakefile"].st # "unspawned"
           /\ (RunDone(1) /\ HasSource("makefile", ArchOf(1)))
                 => /\ procs[1]["cpMakefile"].st = "ok"
                    /\ Content(files, GNUmakefile) = files[Source("makefile", ArchOf(1))]

\* a run without kernel/ that has ended with status 1 and whose Makefile
\* copy has overwritten GNUmakefile
C18_Witness ==
    /\ run = 1 /\ RunDone(1) /\ KernelDir \notin dirs0
    /\ exit[1] = 1
    /\ Content(files0, GNUmakefile) = Old
    /\ Content(files, GNUmakefile) = Source("makefile", ArchOf(1))

\* the script has exited and every operation it spawned has finished
Terminated == pc = "exited" /\ AtRest

\* C19: under fair scheduling every run terminates: the script exits and
\* every operation it spawned finishes, succeeding or failing; an operation
\* that has finished is not run again, and once the run has terminated the
\* tree no longer changes.
C19_Terminates ==
    /\ (run = 1) ~> Terminated
    /\ [][\A op \in Ops : Finished(procs[1][op]) => procs'[1][op] = procs[1][op]]_vars
    /\ [][Terminated => (Terminated' /\ files' = files /\ dirs' = dirs)]_vars

\* a terminated run all of whose four operations have finished, one of them
\* by failing
C19_Witness ==
    /\ run = 1 /\ Terminated
    /\ \A op \in Ops : Finished(procs[1][op])
    /\ \E op \in Ops : procs[1][op].st = "failed"
    /\ \E op \in Ops : procs[1][op].st = "ok"

====
